---- MODULE Spec2Model ----
(***************************************************************************)
(* System-Information-Tool (src/main.py): a one-shot command line program  *)
(* that collects system, cpu, memory, disk, network and process sections   *)
(* from the operating system and prints them as text or JSON, or saves     *)
(* them to a file.                                                         *)
(*                                                                         *)
(* Python values are tagged records, a dict is the insertion-ordered       *)
(* sequence of its items.  Floating-point readings are integers here, and  *)
(* byte counts are whole GiB / MiB, so that round(x / 1024**3, 2) is the   *)
(* float n.0.  Emitted JSON is its sequence of lexical tokens (the         *)
(* indent=4 white space between tokens is not kept); printed text is a     *)
(* sequence of lines, each a kind and its cells (the padding of keys to    *)
(* max_key_length is not kept).                                            *)
(***************************************************************************)
EXTENDS Integers, Sequences, FiniteSets, TLC

\* ------------------------------------------------------------ bounds
\* a collector called on its own: partitions, processes, readings 1..MaxMetric
MaxParts == 2
MaxProcs == 2
MaxMetric == 2
\* a whole run of main(): the same, kept smaller
RunParts == 1
RunProcs == 2
RunMetric == 1
\* --limit ranges over -NegLimit..MaxLimit
MaxLimit == 2
NegLimit == 1

Min(a, b) == IF a <= b THEN a ELSE b
Max(a, b) == IF a >= b THEN a ELSE b

\* ------------------------------------------------------ Python values
PyNone == [t |-> "none"]
PyStr(s) == [t |-> "str", s |-> s]
PyInt(n) == [t |-> "int", n |-> n]
PyList(xs) == [t |-> "list", items |-> xs]
PyDict(kvs) == [t |-> "dict", items |-> kvs]
KV(k, v) == [k |-> k, v |-> v]

DictKeys(d) == [i \in 1..Len(d.items) |-> d.items[i].k]
HasKey(d, k) == \E i \in 1..Len(d.items) : d.items[i].k = k
DictGet(d, k) == d.items[CHOOSE i \in 1..Len(d.items) : d.items[i].k = k].v

\* results[key] = value: replaces the value of an existing key in place,
\* appends a new key at the end
DictSet(d, k, v) ==
  IF HasKey(d, k)
  THEN PyDict([i \in 1..Len(d.items) |->
                 IF d.items[i].k = k THEN KV(k, v) ELSE d.items[i]])
  ELSE PyDict(Append(d.items, KV(k, v)))

\* the outcome of a call: a returned value or a raised exception
Returned(v) == [raised |-> FALSE, exc |-> "", val |-> v]
Raised(e) == [raised |-> TRUE, exc |-> e, val |-> PyNone]

\* f"{n}%", f"{round(b / 1024**3, 2)} GB", f"{round(b / 1024**2, 2)} MB"
Percent(n) == PyStr(ToString(n) \o "%")
GB(n) == PyStr(ToString(n) \o ".0 GB")
MB(n) == PyStr(ToString(n) \o ".0 MB")

\* --------------------------------------------------------- collectors
get_system_info ==
  PyDict(<< KV("system", PyStr("Linux")),
            KV("node", PyStr("host")),
            KV("release", PyStr("6.1")),
            KV("version", PyStr("#1 SMP")),
            KV("machine", PyStr("x86_64")),
            KV("processor", PyStr("")),
            KV("python_version", PyStr("3.11.4")) >>)

\* freq: whether psutil.cpu_freq() answers (else "N/A")
get_cpu_info(freq) ==
  PyDict(<< KV("physical_cores", PyInt(1)),
            KV("total_cores", PyInt(2)),
            KV("max_frequency", IF freq THEN PyInt(3000) ELSE PyStr("N/A")),
            KV("current_frequency", IF freq THEN PyInt(1200) ELSE PyStr("N/A")),
            KV("cpu_usage_per_core", PyList(<< Percent(7), Percent(0) >>)),
            KV("total_cpu_usage", Percent(3)) >>)

get_memory_info ==
  PyDict(<< KV("total", GB(8)),
            KV("available", GB(5)),
            KV("used", GB(3)),
            KV("percentage", Percent(37)),
            KV("swap_total", GB(2)),
            KV("swap_used", GB(0)),
            KV("swap_percentage", Percent(0)) >>)

\* A partition as psutil.disk_partitions() lists it; ok: whether
\* psutil.disk_usage(mountpoint) answers for it.
Partition(i, ok) == [id |-> i, ok |-> ok]
Device(i) == "/dev/sd" \o ToString(i)
Mountpoint(i) == "/mnt" \o ToString(i)

DiskEntry(p) ==
  PyDict(<< KV("device", PyStr(Device(p.id))),
            KV("mountpoint", PyStr(Mountpoint(p.id))),
            KV("file_system", PyStr("ext4")),
            KV("total_size", GB(10 * p.id)),
            KV("used", GB(p.id)),
            KV("free", GB(9 * p.id)),
            KV("percentage", Percent(10)) >>)

\* mutant: the loop gives up at the first failing partition (break for pass)
DiskLoopStopsAtFailure(partitions, n) ==
  LET failing == { i \in 1..n : ~partitions[i].ok }
      stop == IF failing = {} THEN n
              ELSE (CHOOSE i \in failing : \A j \in failing : i <= j) - 1
  IN [i \in 1..stop |-> DiskEntry(partitions[i])]

\* the loop of get_disk_info over partitions[1..n]
RECURSIVE DiskLoop(_, _)
DiskLoop(partitions, n) ==
  IF n = 0 THEN << >>
  ELSE LET disk_info == DiskLoop(partitions, n - 1)
           partition == partitions[n]
       IN IF partition.ok
          THEN Append(disk_info, DiskEntry(partition))
          ELSE disk_info

get_disk_info(partitions) == PyList(DiskLoop(partitions, Len(partitions)))

\* resolves: whether socket.gethostbyname(hostname) answers
get_network_info(resolves) ==
  IF ~resolves THEN Raised("socket.gaierror")
  ELSE Returned(
    PyDict(<< KV("hostname", PyStr("host")),
              KV("ip_address", PyStr("127.0.1.1")),
              KV("interfaces",
                 PyDict(<< KV("lo",
                    PyDict(<< KV("bytes_sent", MB(1)),
                              KV("bytes_received", MB(1)),
                              KV("packets_sent", PyInt(12)),
                              KV("packets_received", PyInt(12)) >>)) >>)) >>))

\* A process as psutil.process_iter(attrs) yields it.  gone: reading
\* proc.info raises NoSuchProcess / AccessDenied / ZombieProcess, the case
\* the except clause is written for.  mem, cpu: the readings in proc.info,
\* PyNone where the process denied the attribute: process_iter(attrs) is
\* called without ad_value, and psutil then fills an attribute whose query
\* raised AccessDenied or ZombieProcess with None instead of raising.
Proc(pid, gone, mem, cpu) == [pid |-> pid, gone |-> gone, mem |-> mem, cpu |-> cpu]

ProcEntry(proc) ==
  PyDict(<< KV("pid", PyInt(proc.pid)),
            KV("name", PyStr("proc" \o ToString(proc.pid))),
            KV("username", PyStr("root")),
            KV("memory_percent", proc.mem),
            KV("cpu_percent", proc.cpu) >>)

\* the loop of get_process_info over the processes procs[1..n]
RECURSIVE ProcLoop(_, _)
ProcLoop(procs, n) ==
  IF n = 0 THEN << >>
  ELSE LET processes == ProcLoop(procs, n - 1)
           proc == procs[n]
       IN IF proc.gone
          THEN processes
          ELSE Append(processes, ProcEntry(proc))

\* list.sort compares the keys with <: with two or more items every key is
\* compared at least once, and None < x raises TypeError
SortRaises(xs, key) ==
  /\ Len(xs) >= 2
  /\ \E i \in 1..Len(xs) : DictGet(xs[i], key).t = "none"

\* x placed into a list sorted in descending order of key, after the items
\* that are not smaller (the sort is stable, also with reverse=True)
InsertDesc(sorted, x, key) ==
  LET ahead == { i \in 1..Len(sorted) :
                   DictGet(sorted[i], key).n >= DictGet(x, key).n }
      pos == Cardinality(ahead)
  IN SubSeq(sorted, 1, pos) \o << x >> \o SubSeq(sorted, pos + 1, Len(sorted))

\* xs.sort(key=lambda x: x[key], reverse=True) over xs[1..n]
RECURSIVE SortDesc(_, _, _)
SortDesc(xs, n, key) ==
  IF n = 0 THEN << >>
  ELSE InsertDesc(SortDesc(xs, n - 1, key), xs[n], key)

\* xs[:limit]
SlicePrefix(xs, limit) ==
  LET stop == IF limit >= 0 THEN Min(limit, Len(xs))
                            ELSE Max(Len(xs) + limit, 0)
  IN SubSeq(xs, 1, stop)

\* mutant: the sort ignores --sort-by
SortKeyMemoryOnly(sort_by) == "memory_percent"

SortKey(sort_by) == IF sort_by = "memory" THEN "memory_percent" ELSE "cpu_percent"

get_process_info(procs, sort_by, limit) ==
  LET processes == ProcLoop(procs, Len(procs))
      key == SortKey(sort_by)
  IN IF SortRaises(processes, key)
     THEN Raised("TypeError")
     ELSE Returned(PyList(
            SlicePrefix(SortDesc(processes, Len(processes), key), limit)))

\* ---------------------------------------------------------------- JSON
\* the lexical tokens of a JSON text
Tok(k, s, n) == [k |-> k, s |-> s, n |-> n]
Punct(c) == Tok("punct", c, 0)
TString(s) == Tok("string", s, 0)
TNull == Tok("null", "", 0)
\* mutant: a number is written as a string
TNumberQuoted(n) == Tok("string", ToString(n), 0)
TNumber(n) == Tok("number", "", n)

\* json.dumps(v) / json.dump(v, f): None -> null, a str -> a string, a
\* number -> a number, a list -> [ ... ], a dict -> { "key": value, ... }
RECURSIVE json_dumps(_)
RECURSIVE DumpItems(_, _)
RECURSIVE DumpMembers(_, _)
DumpItems(xs, n) ==
  IF n = 0 THEN << >>
  ELSE DumpItems(xs, n - 1)
       \o (IF n > 1 THEN << Punct(",") >> ELSE << >>)
       \o json_dumps(xs[n])
DumpMembers(kvs, n) ==
  IF n = 0 THEN << >>
  ELSE DumpMembers(kvs, n - 1)
       \o (IF n > 1 THEN << Punct(",") >> ELSE << >>)
       \o << TString(kvs[n].k), Punct(":") >>
       \o json_dumps(kvs[n].v)
json_dumps(v) ==
  CASE v.t = "none" -> << TNull >>
    [] v.t = "str" -> << TString(v.s) >>
    [] v.t = "int" -> << TNumber(v.n) >>
    [] v.t = "list" ->
         << Punct("[") >> \o DumpItems(v.items, Len(v.items)) \o << Punct("]") >>
    [] v.t = "dict" ->
         << Punct("{") >> \o DumpMembers(v.items, Len(v.items)) \o << Punct("}") >>

\* json.loads: a recursive-descent parse of the tokens from position i;
\* the value read and the position after it
Parsed(v, i) == [v |-> v, next |-> i]
IsPunct(toks, i, c) == i <= Len(toks) /\ toks[i].k = "punct" /\ toks[i].s = c

RECURSIVE ParseValue(_, _)
RECURSIVE ParseItems(_, _, _)
RECURSIVE ParseMembers(_, _, _)
\* the items of an array, i at an item; acc the items read so far
ParseItems(toks, i, acc) ==
  LET item == ParseValue(toks, i)
      got == Append(acc, item.v)
  IN IF IsPunct(toks, item.next, ",")
     THEN ParseItems(toks, item.next + 1, got)
     ELSE Parsed(PyList(got), item.next + 1)
\* the members of an object, i at a key; acc the members read so far
ParseMembers(toks, i, acc) ==
  LET member == ParseValue(toks, i + 2)
      got == Append(acc, KV(toks[i].s, member.v))
  IN IF IsPunct(toks, member.next, ",")
     THEN ParseMembers(toks, member.next + 1, got)
     ELSE Parsed(PyDict(got), member.next + 1)
ParseValue(toks, i) ==
  CASE toks[i].k = "null" -> Parsed(PyNone, i + 1)
    [] toks[i].k = "string" -> Parsed(PyStr(toks[i].s), i + 1)
    [] toks[i].k = "number" -> Parsed(PyInt(toks[i].n), i + 1)
    [] IsPunct(toks, i, "[") ->
         IF IsPunct(toks, i + 1, "]") THEN Parsed(PyList(<< >>), i + 2)
         ELSE ParseItems(toks, i + 1, << >>)
    [] IsPunct(toks, i, "{") ->
         IF IsPunct(toks, i + 1, "}") THEN Parsed(PyDict(<< >>), i + 2)
         ELSE ParseMembers(toks, i + 1, << >>)

json_loads(toks) == ParseValue(toks, 1).v

\* ------------------------------------------------------- tabular text
\* repr(v), and str(v): a str prints bare at the top, quoted inside
RECURSIVE PyRepr(_)
RECURSIVE ReprItems(_, _)
RECURSIVE ReprMembers(_, _)
ReprItems(xs, n) ==
  IF n = 0 THEN ""
  ELSE ReprItems(xs, n - 1) \o (IF n > 1 THEN ", " ELSE "") \o PyRepr(xs[n])
ReprMembers(kvs, n) ==
  IF n = 0 THEN ""
  ELSE ReprMembers(kvs, n - 1) \o (IF n > 1 THEN ", " ELSE "")
       \o "'" \o kvs[n].k \o "': " \o PyRepr(kvs[n].v)
PyRepr(v) ==
  CASE v.t = "none" -> "None"
    [] v.t = "str" -> "'" \o v.s \o "'"
    [] v.t = "int" -> ToString(v.n)
    [] v.t = "list" -> "[" \o ReprItems(v.items, Len(v.items)) \o "]"
    [] v.t = "dict" -> "{" \o ReprMembers(v.items, Len(v.items)) \o "}"
Format(v) == IF v.t = "str" THEN v.s ELSE PyRepr(v)

\* key.capitalize() of the keys the collectors use
Capitalize(key) ==
  CASE key = "pid" -> "Pid"
    [] key = "name" -> "Name"
    [] key = "username" -> "Username"
    [] key = "memory_percent" -> "Memory_percent"
    [] key = "cpu_percent" -> "Cpu_percent"
    [] key = "device" -> "Device"
    [] key = "mountpoint" -> "Mountpoint"
    [] key = "file_system" -> "File_system"
    [] key = "total_size" -> "Total_size"
    [] key = "used" -> "Used"
    [] key = "free" -> "Free"
    [] key = "percentage" -> "Percentage"
    [] OTHER -> key

\* a printed line: what it is and its cells; toks: the tokens of a line
\* that is a JSON text
Line(kind, cells) == [kind |-> kind, cells |-> cells, toks |-> << >>]
JsonLine(toks) == [kind |-> "json", cells |-> << >>, toks |-> toks]

RECURSIVE Flatten(_, _)
Flatten(blocks, n) ==
  IF n = 0 THEN << >> ELSE Flatten(blocks, n - 1) \o blocks[n]

\* the keys of all records of a list: keys.update(item.keys()) for each
KeyUnion(data) ==
  UNION { { data[i].items[j].k : j \in 1..Len(data[i].items) } : i \in 1..Len(data) }

\* the orders in which iterating a set of keys may yield them
Orders(keys) ==
  { o \in [1..Cardinality(keys) -> keys] :
      \A i, j \in 1..Cardinality(keys) : i # j => o[i] # o[j] }

\* the lines display_info prints for one key of a mapping
DictLines(kv) ==
  CASE kv.v.t = "dict" ->
         << Line("key", << kv.k >>) >>
         \o [j \in 1..Len(kv.v.items) |->
               Line("sub", << kv.v.items[j].k, Format(kv.v.items[j].v) >>)]
    [] kv.v.t = "list" ->
         << Line("key", << kv.k >>) >>
         \o [j \in 1..Len(kv.v.items) |-> Line("item", << Format(kv.v.items[j]) >>)]
    [] OTHER -> << Line("pair", << kv.k, Format(kv.v) >>) >>

\* the header and the rule under it, printed only when some record has a
\* "name"; order: the keys left after keys.remove("name"), as iterated
HeaderLines(keys, order) ==
  IF "name" \in keys
  THEN << Line("header", << "Name" >> \o [j \in 1..Len(order) |-> Capitalize(order[j])]),
          Line("rule", << >>) >>
  ELSE << >>

\* the line of one record: its name and item.get(key, 'N/A') for each key
\* when the record has a "name", else the record as print() shows it
RowLine(item, order) ==
  IF HasKey(item, "name")
  THEN Line("row", << Format(DictGet(item, "name")) >>
                   \o [j \in 1..Len(order) |->
                         IF HasKey(item, order[j])
                         THEN Format(DictGet(item, order[j]))
                         ELSE "N/A"])
  ELSE Line("raw", << Format(item) >>)

\* display_info(data, title) with order the iteration order of the key set
display_info(data, title, order) ==
  << Line("title", << title >>) >>
  \o CASE data.t = "dict" ->
            Flatten([i \in 1..Len(data.items) |-> DictLines(data.items[i])],
                    Len(data.items))
       [] data.t = "list" /\ Len(data.items) > 0 /\ data.items[1].t = "dict" ->
            HeaderLines(KeyUnion(data.items), order)
            \o [i \in 1..Len(data.items) |-> RowLine(data.items[i], order)]
       [] data.t = "list" ->
            [i \in 1..Len(data.items) |-> Line("item", << Format(data.items[i]) >>)]
       [] OTHER -> << >>

\* the orders the key set of a list of records can be iterated in; a single
\* empty order where display_info never iterates a key set
KeyOrders(data) ==
  IF /\ data.t = "list" /\ Len(data.items) > 0 /\ data.items[1].t = "dict"
     /\ "name" \in KeyUnion(data.items)
  THEN Orders(KeyUnion(data.items) \ {"name"})
  ELSE { << >> }

\* ------------------------------------------------------------- driver
VARIABLES
  argv,         \* the command line as parse_args() read it
  args,         \* the args namespace (main sets args.system)
  pc,           \* where main() is
  results,      \* the results dict
  called,       \* the collectors called so far, in call order
  fault,        \* the exception that ended the run, "" if none
  stdout,       \* the lines printed so far
  file,         \* the -o file: whether it was opened for writing, its tokens
  probe         \* a collector called on its own: its inputs and what came of it

vars == << argv, args, pc, results, called, fault, stdout, file, probe >>

Sections == << "system", "cpu", "memory", "disk", "network", "processes" >>
SectionSet == { Sections[i] : i \in 1..Len(Sections) }

Limits == (0 - NegLimit)..MaxLimit

\* what parse_args() can return
ArgSpace ==
  [ all : BOOLEAN, system : BOOLEAN, cpu : BOOLEAN, memory : BOOLEAN,
    disk : BOOLEAN, network : BOOLEAN, processes : BOOLEAN,
    sort_by : {"cpu", "memory"}, limit : Limits,
    output : {"", "out.json"}, json : BOOLEAN ]

\* what the operating system can answer: up to n partitions, each with its
\* usage query answering or failing
PartTables(n) ==
  UNION { { [i \in 1..k |-> Partition(i, oks[i])] : oks \in [1..k -> BOOLEAN] }
          : k \in 0..n }
\* up to n processes, in pid order, each gone or with readings None or 1..m
Readings(m) == { PyNone } \cup { PyInt(r) : r \in 1..m }
ProcStates(m) ==
  { [gone |-> TRUE, mem |-> PyNone, cpu |-> PyNone] }
  \cup [ gone : {FALSE}, mem : Readings(m), cpu : Readings(m) ]
ProcTables(n, m) ==
  UNION { { [i \in 1..k |-> Proc(i, sts[i].gone, sts[i].mem, sts[i].cpu)]
            : sts \in [1..k -> ProcStates(m)] }
          : k \in 0..n }

\* the -o file before the run touches it; toks: the JSON text written to it,
\* lines: the text lines written to it
NoFile == [written |-> FALSE, toks |-> << >>, lines |-> << >>]

NoProbe == [fn |-> "", table |-> << >>, sort_by |-> "", limit |-> 0,
            step |-> "", out |-> Returned(PyNone), lines |-> << >>]

Init ==
  /\ argv \in ArgSpace
  /\ args = argv
  /\ pc = "start"
  /\ results = PyDict(<< >>)
  /\ called = << >>
  /\ fault = ""
  /\ stdout = << >>
  /\ file = NoFile
  /\ probe = NoProbe

\* mutant: the default is never applied
AnySelectedAlways(a) == TRUE

\* any([args.all, args.system, ..., args.processes])
AnySelected(a) ==
  a.all \/ a.system \/ a.cpu \/ a.memory \/ a.disk \/ a.network \/ a.processes

\* if not any([...]): args.system = True
SelectDefault ==
  /\ pc = "start"
  /\ args' = IF ~AnySelected(args) THEN [args EXCEPT !.system = TRUE] ELSE args
  /\ pc' = "system"
  /\ UNCHANGED << argv, results, called, fault, stdout, file, probe >>

\* mutant: the guards forget args.all
SelectedByOwnFlag(a, section) == a[section]

\* the guard of each section: args.all or args.<section>
Selected(a, section) == a.all \/ a[section]

\* mutant: the output step comes before the processes section
AfterOutputEarly(section) ==
  CASE section = "system" -> "cpu"
    [] section = "cpu" -> "memory"
    [] section = "memory" -> "disk"
    [] section = "disk" -> "network"
    [] section = "network" -> "output"
    [] section = "processes" -> "output"

\* the statement after a section's: the next section's, the output after the last
After(section) ==
  CASE section = "system" -> "cpu"
    [] section = "cpu" -> "memory"
    [] section = "memory" -> "disk"
    [] section = "disk" -> "network"
    [] section = "network" -> "processes"
    [] section = "processes" -> "output"

\* results[section] = <the collector's value>, the run moves on
Store(section, value) ==
  /\ results' = DictSet(results, section, value)
  /\ called' = Append(called, section)
  /\ pc' = After(section)
  /\ UNCHANGED << argv, args, fault, stdout, file, probe >>

\* the collector raises: nothing in main() catches it
Crash(section, exc) ==
  /\ called' = Append(called, section)
  /\ fault' = exc
  /\ pc' = "crashed"
  /\ UNCHANGED << argv, args, results, stdout, file, probe >>

Skip(section) ==
  /\ pc' = After(section)
  /\ UNCHANGED << argv, args, results, called, fault, stdout, file, probe >>

CollectSystem ==
  /\ pc = "system"
  /\ \/ ~Selected(args, "system") /\ Skip("system")
     \/ Selected(args, "system") /\ Store("system", get_system_info)

CollectCpu ==
  /\ pc = "cpu"
  /\ \/ ~Selected(args, "cpu") /\ Skip("cpu")
     \/ /\ Selected(args, "cpu")
        /\ \/ \E freq \in BOOLEAN : Store("cpu", get_cpu_info(freq))
           \/ Crash("cpu", "psutil.Error")

CollectMemory ==
  /\ pc = "memory"
  /\ \/ ~Selected(args, "memory") /\ Skip("memory")
     \/ /\ Selected(args, "memory")
        /\ \/ Store("memory", get_memory_info)
           \/ Crash("memory", "psutil.Error")

CollectDisk ==
  /\ pc = "disk"
  /\ \/ ~Selected(args, "disk") /\ Skip("disk")
     \/ /\ Selected(args, "disk")
        /\ \/ \E partitions \in PartTables(RunParts) :
                Store("disk", get_disk_info(partitions))
           \/ Crash("disk", "psutil.Error")

CollectNetwork ==
  /\ pc = "network"
  /\ \/ ~Selected(args, "network") /\ Skip("network")
     \/ /\ Selected(args, "network")
        /\ \E resolves \in BOOLEAN :
             LET got == get_network_info(resolves)
             IN IF got.raised
                THEN Crash("network", got.exc)
                ELSE Store("network", got.val)

CollectProcesses ==
  /\ pc = "processes"
  /\ \/ ~Selected(args, "processes") /\ Skip("processes")
     \/ /\ Selected(args, "processes")
        /\ \E procs \in ProcTables(RunProcs, RunMetric) :
             LET got == get_process_info(procs, args.sort_by, args.limit)
             IN IF got.raised
                THEN Crash("processes", got.exc)
                ELSE Store("processes", got.val)

\* datetime.now().strftime("%Y-%m-%d %H:%M:%S")
Timestamp == "2026-01-01 00:00:00"

\* mutant: the timestamp is set in JSON mode too
SnapshotAlwaysStamped(res, a) == DictSet(res, "timestamp", PyStr(Timestamp))

\* the results handed to the output: as collected with --json, else with
\* results["timestamp"] set
Snapshot(res, a) ==
  IF a.json THEN res ELSE DictSet(res, "timestamp", PyStr(Timestamp))

\* mutant: only the JSON branch looks at args.output
ToFileJsonOnly(a) == a.output # "" /\ a.json

\* if args.output: the results go to the file, in both branches of args.json
ToFile(a) == a.output # ""

Title(section, a) ==
  CASE section = "system" -> "System Information"
    [] section = "cpu" -> "CPU Information"
    [] section = "memory" -> "Memory Information"
    [] section = "disk" -> "Disk Information"
    [] section = "network" -> "Network Information"
    [] section = "processes" ->
         "Top " \o ToString(a.limit) \o " Processes by "
         \o (IF a.sort_by = "memory" THEN "Memory" ELSE "CPU") \o " Usage"

\* if section in results: display_info(results[section], title)
SectionLines(res, section, a, order) ==
  IF HasKey(res, section)
  THEN display_info(DictGet(res, section), Title(section, a),
                    IF section = "processes" THEN order ELSE << >>)
  ELSE << >>

\* the text branch: the banner with the timestamp, then the sections
TextLines(res, a, order) ==
  << Line("banner", << Format(DictGet(res, "timestamp")) >>) >>
  \o Flatten([i \in 1..Len(Sections) |-> SectionLines(res, Sections[i], a, order)],
             Len(Sections))

\* save_to_file(data, filename): json.dump into the file, then the notice
save_to_file(data, filename) ==
  /\ file' = [written |-> TRUE, toks |-> json_dumps(data), lines |-> << >>]
  /\ stdout' = Append(stdout, Line("saved", << filename >>))

\* the output step of main(): to the file or to stdout, as JSON or as text
Output ==
  /\ pc = "output"
  /\ results' = Snapshot(results, args)
  /\ UNCHANGED << argv, args, called, probe >>
  /\ IF ToFile(args)
     THEN \/ /\ save_to_file(results', args.output)
             /\ pc' = "done"
             /\ UNCHANGED fault
          \/ \* open(filename, 'w') fails: nothing is written
             /\ fault' = "OSError"
             /\ pc' = "crashed"
             /\ UNCHANGED << stdout, file >>
     ELSE /\ pc' = "done"
          /\ UNCHANGED << fault, file >>
          /\ IF args.json
             THEN stdout' = Append(stdout, JsonLine(json_dumps(results')))
             ELSE \E order \in KeyOrders(IF HasKey(results, "processes")
                                         THEN DictGet(results, "processes")
                                         ELSE PyNone) :
                    stdout' = stdout \o TextLines(results', args, order)

Next ==
  \/ SelectDefault
  \/ CollectSystem
  \/ CollectCpu
  \/ CollectMemory
  \/ CollectDisk
  \/ CollectNetwork
  \/ CollectProcesses
  \/ Output

Spec == Init /\ [][Next]_vars

\* ------------------------------------------- a collector on its own
\* the argparse defaults (src/main.py:179-190)
DefaultLimit == 10
DefaultArgs ==
  [ all |-> FALSE, system |-> FALSE, cpu |-> FALSE, memory |-> FALSE,
    disk |-> FALSE, network |-> FALSE, processes |-> FALSE,
    sort_by |-> "memory", limit |-> DefaultLimit, output |-> "", json |-> FALSE ]

DiskProbes ==
  { [NoProbe EXCEPT !.fn = "get_disk_info", !.table = partitions, !.step = "call"]
    : partitions \in PartTables(MaxParts) }
ProcessProbes ==
  { [NoProbe EXCEPT !.fn = "get_process_info", !.table = x[1], !.sort_by = x[2],
                    !.limit = x[3], !.step = "call"]
    : x \in ProcTables(MaxProcs, MaxMetric) \X {"cpu", "memory"} \X Limits }

UnitInit ==
  /\ argv = DefaultArgs
  /\ args = argv
  /\ pc = "unit"
  /\ results = PyDict(<< >>)
  /\ called = << >>
  /\ fault = ""
  /\ stdout = << >>
  /\ file = NoFile
  /\ probe \in DiskProbes \cup ProcessProbes

\* get_disk_info() / get_process_info(sort_by, limit) against the table
Call ==
  /\ probe.step = "call"
  /\ LET got == IF probe.fn = "get_disk_info"
                THEN Returned(get_disk_info(probe.table))
                ELSE get_process_info(probe.table, probe.sort_by, probe.limit)
     IN probe' = [probe EXCEPT !.out = got,
                               !.step = IF got.raised THEN "raised" ELSE "returned"]
  /\ UNCHANGED << argv, args, pc, results, called, fault, stdout, file >>

\* display_info(<the list returned>, <the section's title>)
Display ==
  /\ probe.step = "returned"
  /\ \E order \in KeyOrders(probe.out.val) :
       probe' = [probe EXCEPT
         !.lines = display_info(probe.out.val,
                     Title(IF probe.fn = "get_disk_info" THEN "disk" ELSE "processes",
                           probe),
                     order),
         !.step = "shown"]
  /\ UNCHANGED << argv, args, pc, results, called, fault, stdout, file >>

UnitNext == Call \/ Display

SpecUnit == UnitInit /\ [][UnitNext]_vars

\* =============================================================== claims
\* ------------------------------------------------ what the claims read
KeySet(d) == { d.items[i].k : i \in 1..Len(d.items) }
SectionKeys(d) == KeySet(d) \cap SectionSet

\* the sections in called order are in the order of Sections
Position(section) == CHOOSE i \in 1..Len(Sections) : Sections[i] = section
InSectionOrder(seq) ==
  \A i, j \in 1..Len(seq) : i < j => Position(seq[i]) < Position(seq[j])

\* none of -a -s -c -m -d -n -p is on the command line
NoSectionFlag(a) ==
  ~a.all /\ \A x \in SectionSet : ~a[x]

\* the sections the command line asks for: all with -a, else the flagged
\* ones, else system
Wanted(a) ==
  IF a.all THEN SectionSet
  ELSE IF NoSectionFlag(a) THEN { "system" }
  ELSE { x \in SectionSet : a[x] }

\* the sections a finished run put out: the keys of the JSON text, or
\* the titles of the text
TitledSections ==
  { x \in SectionSet :
      \E i \in 1..Len(stdout) :
        stdout[i].kind = "title" /\ stdout[i].cells = << Title(x, args) >> }
JsonPrinted ==
  Len(stdout) = 1 /\ stdout[1].kind = "json"
EmittedSections ==
  IF file.written THEN SectionKeys(json_loads(file.toks))
  ELSE IF JsonPrinted THEN SectionKeys(json_loads(stdout[1].toks))
  ELSE TitledSections

\* a call of get_process_info that returned, its list, the table's
\* processes that were enumerated, and the reading the call sorts by
ProcessCallReturned ==
  probe.fn = "get_process_info" /\ probe.step \in {"returned", "shown"}
DiskCallDone ==
  probe.fn = "get_disk_info" /\ probe.step \in {"returned", "raised", "shown"}
Out == probe.out.val.items
Enumerated == { i \in 1..Len(probe.table) : ~probe.table[i].gone }
ReadingOf(i) ==
  IF probe.sort_by = "memory" THEN probe.table[i].mem ELSE probe.table[i].cpu
MetricOf(entry) ==
  DictGet(entry, IF probe.sort_by = "memory" THEN "memory_percent" ELSE "cpu_percent")
PidOf(entry) == DictGet(entry, "pid").n
NotLess(a, b) == a.t = "int" /\ b.t = "int" /\ a.n >= b.n

\* C1: with none of -a -s -c -m -d -n -p given, whatever --sort-by, --limit,
\* -o and -j are, the only collector called is get_system_info, the results
\* hold exactly the system section, and no other section is put out.
C1_DefaultIsSystemOnly ==
  NoSectionFlag(argv) =>
    /\ \A i \in 1..Len(called) : called[i] = "system"
    /\ SectionKeys(results) \subseteq {"system"}
    /\ pc \in {"output", "done"} =>
         called = << "system" >> /\ SectionKeys(results) = {"system"}
    /\ pc = "done" => EmittedSections = {"system"}
C1_Witness ==
  NoSectionFlag(argv) /\ pc = "done" /\ argv.limit < 0 /\ argv.sort_by = "cpu"

\* C2: with -a given, whatever the other flags are, a run that gets to its
\* output has called all six collectors and its results hold, and it puts
\* out, all six sections.
C2_AllIsSixSections ==
  argv.all =>
    /\ pc \in {"output", "done"} =>
         called = Sections /\ SectionKeys(results) = SectionSet
    /\ pc = "done" => EmittedSections = SectionSet
C2_Witness ==
  argv.all /\ ~argv.processes /\ ~argv.disk /\ pc = "done"

\* C3: the list get_process_info(sort_by, limit) returns is never longer
\* than limit, for every limit --limit accepts, negative ones included.
C3_LengthWithinLimit ==
  ProcessCallReturned => Len(Out) <= probe.limit

\* C4: the list get_process_info returns is in non-increasing order of the
\* reading sort_by selects, its entries are distinct enumerated processes
\* with their readings, none of them has a smaller reading than an
\* enumerated process left out, and with a limit >= 0 it holds
\* min(limit, enumerated) entries: the top of the descending order.
C4_SortedTopPrefix ==
  ProcessCallReturned =>
    /\ \A i, j \in 1..Len(Out) : i < j => NotLess(MetricOf(Out[i]), MetricOf(Out[j]))
    /\ \A i \in 1..Len(Out) :
         PidOf(Out[i]) \in Enumerated /\ MetricOf(Out[i]) = ReadingOf(PidOf(Out[i]))
    /\ \A i, j \in 1..Len(Out) : i # j => PidOf(Out[i]) # PidOf(Out[j])
    /\ \A i \in 1..Len(Out) :
         \A p \in Enumerated \ { PidOf(Out[j]) : j \in 1..Len(Out) } :
           NotLess(MetricOf(Out[i]), ReadingOf(p))
    /\ probe.limit >= 0 => Len(Out) = Min(probe.limit, Cardinality(Enumerated))
C4_Witness ==
  /\ ProcessCallReturned
  /\ probe.sort_by = "cpu" /\ probe.limit = 1
  /\ Len(Out) = 1
  /\ DictGet(Out[1], "memory_percent").t = "int"
  /\ \E p \in Enumerated :
       /\ p # PidOf(Out[1])
       /\ probe.table[p].cpu.t = "int" /\ probe.table[p].cpu.n < MetricOf(Out[1]).n
       /\ probe.table[p].mem.t = "int"
       /\ probe.table[p].mem.n > DictGet(Out[1], "memory_percent").n

\* C5: get_disk_info returns, without raising, exactly the entries of the
\* partitions whose usage query answered, in enumeration order: no entry
\* for a failing partition, and a failing partition does not stop the later
\* ones from being collected.
Answering == { i \in 1..Len(probe.table) : probe.table[i].ok }
RankOf(i) == Cardinality({ j \in Answering : j <= i })
C5_DiskSkipsFailed ==
  DiskCallDone =>
    /\ probe.step # "raised"
    /\ Len(Out) = Cardinality(Answering)
    /\ \A i \in Answering :
         /\ DictGet(Out[RankOf(i)], "mountpoint") = PyStr(Mountpoint(i))
         /\ DictGet(Out[RankOf(i)], "device") = PyStr(Device(i))
    /\ \A k \in 1..Len(Out) : \A i \in (1..Len(probe.table)) \ Answering :
         DictGet(Out[k], "mountpoint") # PyStr(Mountpoint(i))
C5_Witness ==
  /\ DiskCallDone
  /\ Len(probe.table) = 2 /\ ~probe.table[1].ok /\ probe.table[2].ok
  /\ Len(Out) = 1

\* C6: a per-item failure (a partition whose usage query fails, a process
\* that is gone or denies access) never ends the run: a run is ended only
\* by a collector's own operating-system failure or by the -o file not
\* opening, never by the TypeError that sorting a denied process's None
\* reading raises.
C6_ItemFailureNeverEndsRun ==
  pc = "crashed" => fault \in {"psutil.Error", "socket.gaierror", "OSError"}

\* C7: in JSON mode the text put out (on stdout with -j, in the file with
\* -j -o) parses back to the results handed to the output, which hold the
\* collected sections and no timestamp key.
C7_JsonRoundTrips ==
  (pc = "done" /\ args.json) =>
    LET toks == IF args.output # "" THEN file.toks ELSE stdout[1].toks
    IN /\ json_loads(toks) = results
       /\ ~HasKey(results, "timestamp")
       /\ DictKeys(results) = called
C7_Witness ==
  /\ pc = "done" /\ args.json /\ args.output # ""
  /\ HasKey(results, "network") /\ HasKey(results, "cpu")
  /\ HasKey(results, "processes") /\ Len(DictGet(results, "processes").items) = 2

\* C8 as first stated: the results go to exactly one destination, stdout
\* without -o and the file with -o, as JSON with -j and as tabular text
\* without -j, for both destinations.
TextPrinted ==
  /\ Len(stdout) >= 1 /\ stdout[1].kind = "banner"
  /\ \A i \in 1..Len(stdout) : stdout[i].kind # "json"
  /\ TitledSections = SectionKeys(results)
C8_FormatFollowsJsonFlag ==
  pc = "done" =>
    IF args.output = ""
    THEN /\ file = NoFile
         /\ IF args.json THEN JsonPrinted ELSE TextPrinted
    ELSE /\ file.written
         /\ stdout = << Line("saved", << args.output >>) >>
         /\ IF args.json
            THEN file.toks # << >> /\ file.lines = << >>
            ELSE file.toks = << >> /\ file.lines # << >>

\* C8 amended: the results go to exactly one destination, stdout without -o
\* and the file with -o.  On stdout they are JSON with -j and tabular text
\* without -j.  The file is JSON with and without -j (stdout then shows only
\* the notice); without -j the JSON also holds the timestamp key.
C8_FileIsAlwaysJson ==
  pc = "done" =>
    IF args.output = ""
    THEN /\ file = NoFile
         /\ IF args.json
            THEN JsonPrinted /\ json_loads(stdout[1].toks) = results
            ELSE TextPrinted
    ELSE /\ file.written
         /\ stdout = << Line("saved", << args.output >>) >>
         /\ file.lines = << >>
         /\ json_loads(file.toks) = results
         /\ HasKey(results, "timestamp") <=> ~args.json
C8_Witness ==
  /\ pc = "done" /\ args.output # "" /\ ~args.json
  /\ SectionKeys(results) = {"disk", "processes"}

\* C9: for a non-empty list of records display_info prints, after the title,
\* a header built from the union of the records' keys, "Name" first when
\* some record has a name, a rule, and one row per record whose cells follow
\* the header's columns (N/A for a key the record lacks); for process
\* records and for disk records alike.
HeaderKey(keys, cell) == CHOOSE k \in keys : Capitalize(k) = cell
C9_HeaderAndRows ==
  (probe.step = "shown" /\ Len(Out) > 0) =>
    LET keys == KeyUnion(Out)
        lines == probe.lines
    IN /\ Len(lines) = Len(Out) + 3
       /\ lines[1].kind = "title"
       /\ lines[2].kind = "header"
       /\ lines[3].kind = "rule"
       /\ Len(lines[2].cells) = Cardinality(keys)
       /\ { lines[2].cells[j] : j \in 1..Len(lines[2].cells) }
            = { Capitalize(k) : k \in keys }
       /\ "name" \in keys => lines[2].cells[1] = "Name"
       /\ \A i \in 1..Len(Out) :
            /\ lines[i + 3].kind = "row"
            /\ Len(lines[i + 3].cells) = Len(lines[2].cells)
            /\ \A j \in 1..Len(lines[2].cells) :
                 LET key == HeaderKey(keys, lines[2].cells[j])
                 IN lines[i + 3].cells[j] =
                      IF HasKey(Out[i], key) THEN Format(DictGet(Out[i], key))
                      ELSE "N/A"

\* the same of process records only
C9_ProcessRowsFollowHeader ==
  probe.fn = "get_process_info" => C9_HeaderAndRows

\* C10: the collectors run in the order system, cpu, memory, disk, network,
\* processes; nothing is printed and the -o file is not opened before every
\* selected collector has returned; so a run that a collector's failure
\* ends has printed nothing and left the -o file alone.
C10_CollectThenFormat ==
  /\ InSectionOrder(called)
  /\ { called[i] : i \in 1..Len(called) } \subseteq Wanted(argv)
  /\ pc \in {"output", "done"} =>
       { called[i] : i \in 1..Len(called) } = Wanted(argv)
  /\ pc # "done" => stdout = << >> /\ file = NoFile
C10_Witness ==
  /\ pc = "crashed" /\ fault = "socket.gaierror"
  /\ args.output # "" /\ Len(called) >= 3

====
